---- MODULE Spec2Model ----
(***************************************************************************)
(* Model of the WSL command bridge (wsl_mcp/core/wsl.py and the second     *)
(* copy of the class in wsl_mcp/core/__init__.py) and of its path          *)
(* translator.                                                             *)
(*                                                                         *)
(* Text that the code inspects character by character (child output,       *)
(* paths) is a sequence of one-character strings.  Text that the code only *)
(* passes along (launcher arguments, fixed messages) is a TLA+ string, and *)
(* a message assembled by an f-string is the sequence of its pieces.       *)
(* The Chinese message literals of the source are written in English,      *)
(* because the module is ASCII.                                            *)
(***************************************************************************)
EXTENDS Integers, Sequences, FiniteSets, TLC

(***************************************************************************)
(* Bounds                                                                  *)
(***************************************************************************)
\* number of caller threads that may have a bridge call in flight
NumCalls == 2
\* largest number of segments after the drive in a generated path
MaxSegs == 2
\* largest length of an arbitrary short path
MaxLen == 3

Calls == 1..NumCalls

(***************************************************************************)
(* Text helpers: Python str methods on sequences of characters             *)
(***************************************************************************)
\* str.isspace for the characters of the model's alphabet
IsSpace(ch) == ch \in {" ", "\n", "\t", "\r"}

RECURSIVE LStrip(_)
LStrip(s) == IF s # <<>> /\ IsSpace(Head(s)) THEN LStrip(Tail(s)) ELSE s

RECURSIVE RStrip(_)
RStrip(s) ==
    IF s # <<>> /\ IsSpace(s[Len(s)]) THEN RStrip(SubSeq(s, 1, Len(s) - 1)) ELSE s

\* str.strip()
Strip(s) == RStrip(LStrip(s))

\* s.startswith(p)
StartsWith(s, p) == Len(s) >= Len(p) /\ SubSeq(s, 1, Len(p)) = p

\* s.replace(old, new): left to right, non-overlapping; old is non-empty
RECURSIVE Replace(_, _, _)
Replace(s, old, new) ==
    IF s = <<>> THEN <<>>
    ELSE IF StartsWith(s, old)
         THEN new \o Replace(SubSeq(s, Len(old) + 1, Len(s)), old, new)
         ELSE <<Head(s)>> \o Replace(Tail(s), old, new)

\* the k-th smallest member of a set of positions
Nth(S, k) == CHOOSE i \in S : Cardinality({j \in S : j < i}) = k - 1

\* s.split(sep) for a one-character separator: the parts between the
\* separators, always at least one part
Split(s, sep) ==
    LET cuts == {i \in 1..Len(s) : s[i] = sep}
        n == Cardinality(cuts)
        Cut(k) == IF k = 0 THEN 0 ELSE IF k = n + 1 THEN Len(s) + 1 ELSE Nth(cuts, k)
    IN  [k \in 1..(n + 1) |-> SubSeq(s, Cut(k - 1) + 1, Cut(k) - 1)]

\* s.split(): the maximal runs of non-whitespace characters
SplitWS(s) ==
    LET starts == {i \in 1..Len(s) : ~IsSpace(s[i]) /\ (i = 1 \/ IsSpace(s[i - 1]))}
        ends == {i \in 1..Len(s) : ~IsSpace(s[i]) /\ (i = Len(s) \/ IsSpace(s[i + 1]))}
    IN  [k \in 1..Cardinality(starts) |-> SubSeq(s, Nth(starts, k), Nth(ends, k))]

\* sep.join(parts)
RECURSIVE Join(_, _)
Join(parts, sep) ==
    IF parts = <<>> THEN <<>>
    ELSE IF Len(parts) = 1 THEN parts[1]
         ELSE parts[1] \o sep \o Join(Tail(parts), sep)

\* the letters of the model's alphabet, as (upper, lower) pairs
LetterPairs == {<<"C", "c">>, <<"D", "d">>, <<"A", "a">>, <<"B", "b">>,
                <<"M", "m">>, <<"N", "n">>, <<"T", "t">>}

\* str.lower() and str.upper() on one character
Lower(ch) == IF \E p \in LetterPairs : p[1] = ch
             THEN (CHOOSE p \in LetterPairs : p[1] = ch)[2] ELSE ch
Upper(ch) == IF \E p \in LetterPairs : p[2] = ch
             THEN (CHOOSE p \in LetterPairs : p[2] = ch)[1] ELSE ch

LowerStr(s) == [i \in 1..Len(s) |-> Lower(s[i])]
UpperStr(s) == [i \in 1..Len(s) |-> Upper(s[i])]

(***************************************************************************)
(* The outcome record and the exceptions                                   *)
(***************************************************************************)
\* WSLCommandResult(returncode, stdout, stderr)
WSLCommandResult(rc, out, err) ==
    [kind |-> "outcome", returncode |-> rc, stdout |-> out, stderr |-> err]

\* a method that returns a plain str or list instead of a WSLCommandResult
Value(v) == [kind |-> "value", value |-> v]

\* an exception that leaves the method
Raised(e) == [kind |-> "raised", exc |-> e]

NoResult == [kind |-> "none"]

\* the literal "命令执行超时" ("command execution timed out")
TIMEOUT_MESSAGE == <<"command execution timed out">>

\* subprocess.TimeoutExpired(cmd, timeout); str(e) names the timeout
TimeoutExpired(timeout) ==
    [type |-> "TimeoutExpired",
     text |-> <<"Command timed out after ", ToString(timeout), " seconds">>]

\* what Popen raises when the launcher cannot be started
LaunchErrors ==
    {[type |-> "FileNotFoundError",
      text |-> <<"[WinError 2] The system cannot find the file specified">>],
     [type |-> "PermissionError",
      text |-> <<"[WinError 5] Access is denied">>]}

\* str(e)
str(e) == e.text

(***************************************************************************)
(* State                                                                   *)
(***************************************************************************)
VARIABLES
    wsl_path,   \* WSLTool.wsl_path of the shared instance wsl_tool
    pc,         \* pc[c]: "idle", "running" (blocked in subprocess.run), "returned", "raised"
    call,       \* call[c]: the method called and its parameters
    argv,       \* argv[c]: the argument vector handed to subprocess.run
    child,      \* child[c]: the child process of the call
    result,     \* result[c]: what the method returned or raised
    launches,   \* launches[c]: launch attempts made by the call
    path_pc,    \* path translator: which conversions have been applied
    path_in,    \* path translator: the input path
    path_mid,   \* path translator: result of the first conversion
    path_out,   \* path translator: result of the second conversion
    file_pc,    \* file manager: "idle", "waiting" (inside wsl_tool.execute_command), "done"
    file_call,  \* file manager: the tool function called and its arguments
    file_result,\* file manager: the dict the tool function returned
    file_runs   \* file manager: calls of wsl_tool.execute_command made by the tool function

bridge_vars == <<wsl_path, pc, call, argv, child, result, launches>>
path_vars == <<path_pc, path_in, path_mid, path_out>>
file_vars == <<file_pc, file_call, file_result, file_runs>>
vars == <<wsl_path, pc, call, argv, child, result, launches,
          path_pc, path_in, path_mid, path_out,
          file_pc, file_call, file_result, file_runs>>

(***************************************************************************)
(* Parameters of the methods                                               *)
(***************************************************************************)
\* the default values of the keyword parameters
Defaults ==
    [command |-> "", distribution |-> "", user |-> "", working_dir |-> "",
     shell_type |-> "", timeout |-> 30, file_path |-> "", format_type |-> "tar",
     install_location |-> "", version |-> 2, web_download |-> FALSE,
     no_launch |-> FALSE]

\* an option is either left empty or given this value
OptionValues(v) == {"", v}

\* the commands run in the guest
Commands == {"echo hello", "ls -la /tmp"}

\* execute_command(command)
P_command == {[Defaults EXCEPT !.command = cmd] : cmd \in Commands}

\* execute_command_with_distro(command, distribution)
P_with_distro ==
    {[p EXCEPT !.distribution = d] : p \in P_command, d \in OptionValues("Ubuntu")}

\* execute_command_advanced(command, distribution, user, working_dir, shell_type)
P_advanced ==
    {[p EXCEPT !.distribution = d, !.user = u, !.working_dir = w, !.shell_type = s] :
        p \in P_command, d \in OptionValues("Ubuntu"), u \in OptionValues("root"),
        w \in OptionValues("~"), s \in OptionValues("login")}

\* a method that takes no parameter
P_none == {Defaults}

\* terminate_distribution, set_default_distribution, unregister_distribution
P_distribution == {[Defaults EXCEPT !.distribution = "Ubuntu"]}

\* export_distribution(distribution, file_path, format_type="tar")
P_export ==
    {[p EXCEPT !.file_path = "D:\\backup.tar"] : p \in P_distribution}

\* import_distribution(distribution, install_location, file_path, version=2)
P_import ==
    {[p EXCEPT !.install_location = "D:\\wsl", !.file_path = "D:\\backup.tar"] :
        p \in P_distribution}

\* install_distribution(distribution, web_download, no_launch)
P_install ==
    {[Defaults EXCEPT !.distribution = d, !.web_download = w, !.no_launch = n] :
        d \in OptionValues("Ubuntu"), w \in BOOLEAN, n \in BOOLEAN}

\* the call the concurrent callers make: a run method with every option given
TypicalCall ==
    [Defaults EXCEPT !.command = "echo hello", !.distribution = "Ubuntu",
                     !.user = "root", !.working_dir = "~", !.shell_type = "login"]

(***************************************************************************)
(* What a child that runs to completion hands back: subprocess.run's       *)
(* CompletedProcess(returncode, stdout, stderr), the streams as the text   *)
(* subprocess.run has decoded (text=True, errors='replace')                *)
(***************************************************************************)
T_empty == <<>>
T_hello == <<"h", "i", "\n">>
T_padded == <<" ", "\t", "a", " ", "b", " ", "\n">>
T_table == <<"N", " ", "S", "\n", "U", " ", "R", " ", "2", "\n", " ", "\n", "D", "\n">>

CompletedProcesses ==
    {[returncode |-> 0, stdout |-> T_hello, stderr |-> T_empty],
     [returncode |-> 0, stdout |-> T_table, stderr |-> T_hello],
     [returncode |-> 1, stdout |-> T_empty, stderr |-> T_padded],
     [returncode |-> 255, stdout |-> T_padded, stderr |-> T_hello]}

\* what a child has printed when the timeout expires
PartialOutputs == {T_hello}

(***************************************************************************)
(* The methods of WSLTool.  For a method m:                                *)
(*   m_args(p)    the argument vector it hands to subprocess.run           *)
(*   m_timeout(p) the timeout it hands to subprocess.run                   *)
(*   m_ok(p, r)   what it returns when subprocess.run returns r            *)
(*   m_exc(e)     what it does when subprocess.run raises e                *)
(***************************************************************************)
\* RunExcept without the TimeoutExpired clause: every exception takes the
\* "except Exception" clause
RunExcept_SingleClause(e) == WSLCommandResult(-1, <<>>, str(e))

\* RunExcept whose "except Exception" clause repeats the timeout message
RunExcept_RepeatsTimeoutMessage(e) == WSLCommandResult(-1, <<>>, TIMEOUT_MESSAGE)

\* the two except clauses shared by the run methods
RunExcept(e) ==
    IF e.type = "TimeoutExpired"
    THEN WSLCommandResult(-1, <<>>, TIMEOUT_MESSAGE)
    ELSE WSLCommandResult(-1, <<>>, str(e))

\* StrippedResult with rstrip() in place of strip()
StrippedResult_RightOnly(r) ==
    WSLCommandResult(r.returncode, RStrip(r.stdout), RStrip(r.stderr))

\* the return statement shared by the run methods and the status query
StrippedResult(r) == WSLCommandResult(r.returncode, Strip(r.stdout), Strip(r.stderr))

\* LifecycleExcept with the separate TimeoutExpired clause of the run methods
LifecycleExcept_FixedTimeoutMessage(e) ==
    IF e.type = "TimeoutExpired"
    THEN WSLCommandResult(-1, <<>>, TIMEOUT_MESSAGE)
    ELSE WSLCommandResult(-1, <<>>, str(e))

\* the single "except Exception" clause of the lifecycle methods
LifecycleExcept(e) == WSLCommandResult(-1, <<>>, str(e))

\* ConfirmedResult that reports every nonzero exit code as -1
ConfirmedResult_FailureAsMinusOne(r, message) ==
    WSLCommandResult(IF r.returncode = 0 THEN 0 ELSE -1,
                     IF r.returncode = 0 THEN message ELSE <<>>, Strip(r.stderr))

\* the return statement of the lifecycle methods: a fixed message on exit code 0
ConfirmedResult(r, message) ==
    WSLCommandResult(r.returncode, IF r.returncode = 0 THEN message ELSE <<>>,
                     Strip(r.stderr))

execute_command_args(p) == <<wsl_path, "sh", "-c", p.command>>
execute_command_ok(p, r) == StrippedResult(r)
execute_command_exc(e) == RunExcept(e)

execute_command_with_distro_args(p) ==
    <<wsl_path>>
    \o (IF p.distribution # "" THEN <<"-d", p.distribution>> ELSE <<>>)
    \o <<"sh", "-c", p.command>>
execute_command_with_distro_ok(p, r) == StrippedResult(r)
execute_command_with_distro_exc(e) == RunExcept(e)

\* execute_command_advanced_args that substitutes the standard shell type
\* for an omitted one
execute_command_advanced_args_DefaultShell(p) ==
    <<wsl_path>>
    \o (IF p.distribution # "" THEN <<"-d", p.distribution>> ELSE <<>>)
    \o (IF p.user # "" THEN <<"-u", p.user>> ELSE <<>>)
    \o (IF p.working_dir # "" THEN <<"--cd", p.working_dir>> ELSE <<>>)
    \o <<"--shell-type", IF p.shell_type # "" THEN p.shell_type ELSE "standard">>
    \o <<"--exec", "sh", "-c", p.command>>

execute_command_advanced_args(p) ==
    <<wsl_path>>
    \o (IF p.distribution # "" THEN <<"-d", p.distribution>> ELSE <<>>)
    \o (IF p.user # "" THEN <<"-u", p.user>> ELSE <<>>)
    \o (IF p.working_dir # "" THEN <<"--cd", p.working_dir>> ELSE <<>>)
    \o (IF p.shell_type # "" THEN <<"--shell-type", p.shell_type>> ELSE <<>>)
    \o <<"--exec", "sh", "-c", p.command>>
execute_command_advanced_ok(p, r) == StrippedResult(r)
execute_command_advanced_exc(e) == RunExcept(e)

shutdown_wsl_args(p) == <<wsl_path, "--shutdown">>
shutdown_wsl_ok(p, r) == ConfirmedResult(r, <<"WSL shut down">>)
shutdown_wsl_exc(e) == LifecycleExcept(e)

terminate_distribution_args(p) == <<wsl_path, "-t", p.distribution>>
terminate_distribution_ok(p, r) ==
    ConfirmedResult(r, <<"distribution ", p.distribution, " terminated">>)
terminate_distribution_exc(e) == LifecycleExcept(e)

set_default_distribution_args(p) == <<wsl_path, "-s", p.distribution>>
set_default_distribution_ok(p, r) ==
    ConfirmedResult(r, <<p.distribution, " set as default distribution">>)
set_default_distribution_exc(e) == LifecycleExcept(e)

export_distribution_args(p) ==
    <<wsl_path, "--export", p.distribution, p.file_path, "--format", p.format_type>>
export_distribution_ok(p, r) ==
    ConfirmedResult(r, <<"distribution exported to ", p.file_path>>)
export_distribution_exc(e) == LifecycleExcept(e)

import_distribution_args(p) ==
    <<wsl_path, "--import", p.distribution, p.install_location, p.file_path,
      "--version", ToString(p.version)>>
import_distribution_ok(p, r) ==
    ConfirmedResult(r, <<"distribution ", p.distribution, " imported">>)
import_distribution_exc(e) == LifecycleExcept(e)

unregister_distribution_args(p) == <<wsl_path, "--unregister", p.distribution>>
unregister_distribution_ok(p, r) ==
    ConfirmedResult(r, <<"distribution ", p.distribution, " unregistered">>)
unregister_distribution_exc(e) == LifecycleExcept(e)

get_wsl_status_args(p) == <<wsl_path, "--status">>
get_wsl_status_ok(p, r) == StrippedResult(r)
get_wsl_status_exc(e) == LifecycleExcept(e)

install_distribution_args(p) ==
    <<wsl_path, "--install">>
    \o (IF p.distribution # "" THEN <<p.distribution>> ELSE <<>>)
    \o (IF p.web_download THEN <<"--web-download">> ELSE <<>>)
    \o (IF p.no_launch THEN <<"--no-launch">> ELSE <<>>)
install_distribution_ok(p, r) == ConfirmedResult(r, <<"installing distribution...">>)
install_distribution_exc(e) == LifecycleExcept(e)

\* the loop "for line in lines: if line.strip(): distros.append(f(line))"
RECURSIVE NonBlankLines(_)
NonBlankLines(lines) ==
    IF lines = <<>> THEN <<>>
    ELSE (IF Strip(Head(lines)) # <<>> THEN <<Head(lines)>> ELSE <<>>)
         \o NonBlankLines(Tail(lines))

\* LinesAfterHeader that does not skip the header: split('\n') without [1:]
LinesAfterHeader_KeepsHeader(stdout) == Split(Strip(stdout), "\n")

\* result.stdout.strip().split('\n')[1:]
LinesAfterHeader(stdout) == Tail(Split(Strip(stdout), "\n"))

list_online_distributions_args(p) == <<wsl_path, "-l", "--online">>
list_online_distributions_ok(p, r) ==
    IF r.returncode = 0
    THEN LET lines == NonBlankLines(LinesAfterHeader(r.stdout))
         IN  Value([i \in 1..Len(lines) |-> Strip(lines[i])])
    ELSE Value(<<>>)
list_online_distributions_exc(e) == Value(<<>>)

get_wsl_version_args(p) == <<wsl_path, "--version">>
get_wsl_version_ok(p, r) ==
    IF r.returncode = 0 THEN Value(Strip(r.stdout))
    ELSE Value(<<"cannot get WSL version">>)
\* no try statement: the exception leaves the method
get_wsl_version_exc(e) == Raised(e)

\* one descriptor of list_distributions: parts = line.split()
Descriptor(line) ==
    LET parts == SplitWS(line)
    IN  [name |-> parts[1],
         state |-> IF Len(parts) > 1 THEN parts[2] ELSE <<>>,
         version |-> IF Len(parts) > 2 THEN parts[3] ELSE <<>>]

list_distributions_args(p) == <<wsl_path, "-l", "--verbose">>
list_distributions_ok(p, r) ==
    IF r.returncode = 0
    THEN LET lines == NonBlankLines(LinesAfterHeader(r.stdout))
         IN  Value([i \in 1..Len(lines) |-> Descriptor(lines[i])])
    ELSE Value(<<>>)
\* no try statement: the exception leaves the method
list_distributions_exc(e) == Raised(e)

get_default_distribution_args(p) == <<wsl_path, "-e", "echo", "$WSL_DISTRO_NAME">>
get_default_distribution_ok(p, r) ==
    IF r.returncode = 0 THEN Value(Strip(r.stdout)) ELSE Value(<<>>)
\* no try statement: the exception leaves the method
get_default_distribution_exc(e) == Raised(e)

(***************************************************************************)
(* Method dispatch                                                         *)
(***************************************************************************)
RunOps == {"execute_command", "execute_command_with_distro", "execute_command_advanced"}

\* methods that return a WSLCommandResult from a fixed-flag invocation
LifecycleOps ==
    {"shutdown_wsl", "terminate_distribution", "set_default_distribution",
     "export_distribution", "import_distribution", "unregister_distribution",
     "get_wsl_status", "install_distribution"}

\* methods that return a str or a list
QueryOps ==
    {"list_online_distributions", "get_wsl_version", "list_distributions",
     "get_default_distribution"}

Ops == RunOps \cup LifecycleOps \cup QueryOps

\* the parameter values each method is called with
ParamsOf(o) ==
    CASE o = "execute_command" -> P_command
      [] o = "execute_command_with_distro" -> P_with_distro
      [] o = "execute_command_advanced" -> P_advanced
      [] o \in {"terminate_distribution", "set_default_distribution",
                "unregister_distribution"} -> P_distribution
      [] o = "export_distribution" -> P_export
      [] o = "import_distribution" -> P_import
      [] o = "install_distribution" -> P_install
      [] OTHER -> P_none

\* Caller 1 calls every method with every parameter value; the other callers
\* are concurrent traffic, each making the typical call of
\* execute_command_advanced.
OpsOf(c) == IF c = 1 THEN Ops ELSE {"execute_command_advanced"}
CallsOf(c, o) == IF c = 1 THEN ParamsOf(o) ELSE {TypicalCall}

Args(o, p) ==
    CASE o = "execute_command" -> execute_command_args(p)
      [] o = "execute_command_with_distro" -> execute_command_with_distro_args(p)
      [] o = "execute_command_advanced" -> execute_command_advanced_args(p)
      [] o = "shutdown_wsl" -> shutdown_wsl_args(p)
      [] o = "terminate_distribution" -> terminate_distribution_args(p)
      [] o = "set_default_distribution" -> set_default_distribution_args(p)
      [] o = "export_distribution" -> export_distribution_args(p)
      [] o = "import_distribution" -> import_distribution_args(p)
      [] o = "unregister_distribution" -> unregister_distribution_args(p)
      [] o = "get_wsl_status" -> get_wsl_status_args(p)
      [] o = "install_distribution" -> install_distribution_args(p)
      [] o = "list_online_distributions" -> list_online_distributions_args(p)
      [] o = "get_wsl_version" -> get_wsl_version_args(p)
      [] o = "list_distributions" -> list_distributions_args(p)
      [] o = "get_default_distribution" -> get_default_distribution_args(p)

\* the timeout= argument of each subprocess.run call, in seconds
TimeoutOf(o, p) ==
    CASE o \in RunOps -> p.timeout
      [] o \in {"export_distribution", "import_distribution",
                "install_distribution"} -> 300
      [] o \in {"unregister_distribution", "list_online_distributions"} -> 30
      [] OTHER -> 10

OnOk(o, p, r) ==
    CASE o = "execute_command" -> execute_command_ok(p, r)
      [] o = "execute_command_with_distro" -> execute_command_with_distro_ok(p, r)
      [] o = "execute_command_advanced" -> execute_command_advanced_ok(p, r)
      [] o = "shutdown_wsl" -> shutdown_wsl_ok(p, r)
      [] o = "terminate_distribution" -> terminate_distribution_ok(p, r)
      [] o = "set_default_distribution" -> set_default_distribution_ok(p, r)
      [] o = "export_distribution" -> export_distribution_ok(p, r)
      [] o = "import_distribution" -> import_distribution_ok(p, r)
      [] o = "unregister_distribution" -> unregister_distribution_ok(p, r)
      [] o = "get_wsl_status" -> get_wsl_status_ok(p, r)
      [] o = "install_distribution" -> install_distribution_ok(p, r)
      [] o = "list_online_distributions" -> list_online_distributions_ok(p, r)
      [] o = "get_wsl_version" -> get_wsl_version_ok(p, r)
      [] o = "list_distributions" -> list_distributions_ok(p, r)
      [] o = "get_default_distribution" -> get_default_distribution_ok(p, r)

OnExc(o, e) ==
    CASE o = "execute_command" -> execute_command_exc(e)
      [] o = "execute_command_with_distro" -> execute_command_with_distro_exc(e)
      [] o = "execute_command_advanced" -> execute_command_advanced_exc(e)
      [] o = "shutdown_wsl" -> shutdown_wsl_exc(e)
      [] o = "terminate_distribution" -> terminate_distribution_exc(e)
      [] o = "set_default_distribution" -> set_default_distribution_exc(e)
      [] o = "export_distribution" -> export_distribution_exc(e)
      [] o = "import_distribution" -> import_distribution_exc(e)
      [] o = "unregister_distribution" -> unregister_distribution_exc(e)
      [] o = "get_wsl_status" -> get_wsl_status_exc(e)
      [] o = "install_distribution" -> install_distribution_exc(e)
      [] o = "list_online_distributions" -> list_online_distributions_exc(e)
      [] o = "get_wsl_version" -> get_wsl_version_exc(e)
      [] o = "list_distributions" -> list_distributions_exc(e)
      [] o = "get_default_distribution" -> get_default_distribution_exc(e)

(***************************************************************************)
(* The bridge: one call is the method's code up to subprocess.run, the     *)
(* blocking wait for the child, and the method's code after it             *)
(***************************************************************************)
NoCall == [op |-> "none"]
NoChild == [state |-> "none"]

\* _find_wsl
find_wsl == "wsl.exe"

\* how a method leaves: by return or by an exception
Leaves(res) == IF res.kind = "raised" THEN "raised" ELSE "returned"

BridgeInit ==
    /\ wsl_path = find_wsl
    /\ pc = [c \in Calls |-> "idle"]
    /\ call = [c \in Calls |-> NoCall]
    /\ argv = [c \in Calls |-> <<>>]
    /\ child = [c \in Calls |-> NoChild]
    /\ result = [c \in Calls |-> NoResult]
    /\ launches = [c \in Calls |-> 0]

\* the method builds its argument vector and subprocess.run starts the child
Launch(c, o, p) ==
    /\ pc[c] = "idle"
    /\ pc' = [pc EXCEPT ![c] = "running"]
    /\ call' = [call EXCEPT ![c] = [op |-> o, params |-> p]]
    /\ argv' = [argv EXCEPT ![c] = Args(o, p)]
    /\ child' = [child EXCEPT ![c] = [state |-> "running"]]
    /\ launches' = [launches EXCEPT ![c] = @ + 1]
    /\ UNCHANGED <<wsl_path, result>>

\* the method builds its argument vector and subprocess.run fails to start
\* the child: Popen raises e and the method's except clauses run
LaunchFails(c, o, p, e) ==
    /\ pc[c] = "idle"
    /\ call' = [call EXCEPT ![c] = [op |-> o, params |-> p]]
    /\ argv' = [argv EXCEPT ![c] = Args(o, p)]
    /\ child' = [child EXCEPT ![c] = [state |-> "failed", error |-> e]]
    /\ launches' = [launches EXCEPT ![c] = @ + 1]
    /\ result' = [result EXCEPT ![c] = OnExc(o, e)]
    /\ pc' = [pc EXCEPT ![c] = Leaves(OnExc(o, e))]
    /\ UNCHANGED wsl_path

\* ChildExits with the result kept in a field of the shared instance: every
\* call in flight takes the result of the child that exited
ChildExits_SharedResult(c, r) ==
    /\ pc[c] = "running"
    /\ child' = [child EXCEPT ![c] =
                    [state |-> "exited", returncode |-> r.returncode,
                     stdout |-> r.stdout, stderr |-> r.stderr]]
    /\ result' = [d \in Calls |->
                    IF pc[d] = "running"
                    THEN OnOk(call[c].op, call[c].params, r) ELSE result[d]]
    /\ pc' = [pc EXCEPT ![c] = Leaves(OnOk(call[c].op, call[c].params, r))]
    /\ UNCHANGED <<wsl_path, call, argv, launches>>

\* the child exits within the timeout; subprocess.run returns r and the
\* method's return statement runs
ChildExits(c, r) ==
    /\ pc[c] = "running"
    /\ child' = [child EXCEPT ![c] =
                    [state |-> "exited", returncode |-> r.returncode,
                     stdout |-> r.stdout, stderr |-> r.stderr]]
    /\ result' = [result EXCEPT ![c] = OnOk(call[c].op, call[c].params, r)]
    /\ pc' = [pc EXCEPT ![c] = Leaves(OnOk(call[c].op, call[c].params, r))]
    /\ UNCHANGED <<wsl_path, call, argv, launches>>

\* TimeoutExpires that starts the child again instead of giving up
TimeoutExpires_Retry(c, printed) ==
    /\ pc[c] = "running"
    /\ launches[c] < 2
    /\ child' = [child EXCEPT ![c] = [state |-> "running"]]
    /\ launches' = [launches EXCEPT ![c] = @ + 1]
    /\ UNCHANGED <<wsl_path, pc, call, argv, result>>

\* subprocess.run called without timeout=: no timer, the child is never killed
TimeoutExpires_NoTimer(c, printed) ==
    /\ pc[c] = "running"
    /\ FALSE
    /\ UNCHANGED bridge_vars

\* the timeout expires first: subprocess.run kills the child, raises
\* TimeoutExpired, and the method's except clauses run
TimeoutExpires(c, printed) ==
    /\ pc[c] = "running"
    /\ child' = [child EXCEPT ![c] = [state |-> "killed", stdout |-> printed]]
    /\ LET e == TimeoutExpired(TimeoutOf(call[c].op, call[c].params))
       IN  /\ result' = [result EXCEPT ![c] = OnExc(call[c].op, e)]
           /\ pc' = [pc EXCEPT ![c] = Leaves(OnExc(call[c].op, e))]
    /\ UNCHANGED <<wsl_path, call, argv, launches>>

\* the caller has taken the result; the thread is free for its next call
Finish(c) ==
    /\ pc[c] \in {"returned", "raised"}
    /\ pc' = [pc EXCEPT ![c] = "idle"]
    /\ call' = [call EXCEPT ![c] = NoCall]
    /\ argv' = [argv EXCEPT ![c] = <<>>]
    /\ child' = [child EXCEPT ![c] = NoChild]
    /\ result' = [result EXCEPT ![c] = NoResult]
    /\ launches' = [launches EXCEPT ![c] = 0]
    /\ UNCHANGED wsl_path

PathIdle ==
    /\ path_pc = "start"
    /\ path_in = <<>>
    /\ path_mid = <<>>
    /\ path_out = <<>>

\* no tool function of file_manager.py is running
FileIdle ==
    /\ file_pc = "idle"
    /\ file_call = NoCall
    /\ file_result = NoResult
    /\ file_runs = 0

Init == BridgeInit /\ PathIdle /\ FileIdle

Next ==
    \/ \E c \in Calls : \E o \in OpsOf(c) : \E p \in CallsOf(c, o) :
          /\ Launch(c, o, p)
          /\ UNCHANGED <<path_vars, file_vars>>
    \/ \E c \in Calls, e \in LaunchErrors : \E o \in OpsOf(c) : \E p \in CallsOf(c, o) :
          /\ LaunchFails(c, o, p, e)
          /\ UNCHANGED <<path_vars, file_vars>>
    \/ \E c \in Calls, r \in CompletedProcesses :
          /\ ChildExits(c, r)
          /\ UNCHANGED <<path_vars, file_vars>>
    \/ \E c \in Calls, printed \in PartialOutputs :
          /\ TimeoutExpires(c, printed)
          /\ UNCHANGED <<path_vars, file_vars>>
    \/ \E c \in Calls :
          /\ Finish(c)
          /\ UNCHANGED <<path_vars, file_vars>>

Spec == Init /\ [][Next]_vars

(***************************************************************************)
(* The path translator                                                     *)
(***************************************************************************)
BACKSLASH == "\\"
SLASH == "/"
MNT == <<"/", "m", "n", "t", "/">>

\* convert_windows_path: the f-string "/mnt/{drive}/{rest}", where only
\* rest = windows_path[2:] has its backslashes replaced and "//" collapsed
convert_windows_path(windows_path) ==
    IF Len(windows_path) >= 2 /\ windows_path[2] = ":"
    THEN LET drive == Lower(windows_path[1])
             rest == SubSeq(windows_path, 3, Len(windows_path))
         IN  MNT \o <<drive>> \o <<SLASH>>
             \o Replace(Replace(rest, <<BACKSLASH>>, <<SLASH>>),
                        <<SLASH, SLASH>>, <<SLASH>>)
    ELSE windows_path

\* convert_to_windows_path that keeps the drive segment as written
convert_to_windows_path_KeepsCase(path) ==
    IF StartsWith(path, MNT)
    THEN LET parts == Split(path, SLASH)
         IN  IF Len(parts) >= 3
             THEN Replace(parts[3] \o <<":", BACKSLASH>>
                          \o Join(SubSeq(parts, 4, Len(parts)), <<SLASH>>),
                          <<SLASH>>, <<BACKSLASH>>)
             ELSE path
    ELSE path

\* convert_to_windows_path that tests for "/mnt" without the trailing slash
convert_to_windows_path_ShortPrefix(path) ==
    IF StartsWith(path, <<"/", "m", "n", "t">>)
    THEN LET parts == Split(path, SLASH)
         IN  IF Len(parts) >= 3
             THEN Replace(UpperStr(parts[3]) \o <<":", BACKSLASH>>
                          \o Join(SubSeq(parts, 4, Len(parts)), <<SLASH>>),
                          <<SLASH>>, <<BACKSLASH>>)
             ELSE path
    ELSE path

\* convert_to_windows_path that translates only a one-letter drive segment
convert_to_windows_path_SingleLetterDrive(path) ==
    IF StartsWith(path, MNT)
    THEN LET parts == Split(path, SLASH)
         IN  IF Len(parts) >= 3 /\ Len(parts[3]) = 1
             THEN Replace(UpperStr(parts[3]) \o <<":", BACKSLASH>>
                          \o Join(SubSeq(parts, 4, Len(parts)), <<SLASH>>),
                          <<SLASH>>, <<BACKSLASH>>)
             ELSE path
    ELSE path

\* convert_to_windows_path
convert_to_windows_path(path) ==
    IF StartsWith(path, MNT)
    THEN LET parts == Split(path, SLASH)
         IN  IF Len(parts) >= 3
             THEN LET drive == UpperStr(parts[3])
                      windows_path == drive \o <<":", BACKSLASH>>
                                      \o Join(SubSeq(parts, 4, Len(parts)), <<SLASH>>)
                  IN  Replace(windows_path, <<SLASH>>, <<BACKSLASH>>)
             ELSE path
    ELSE path

\* path segments and drive letters the generated paths are made of
Segments == {<<"a">>, <<"B", "b">>}
UpperDrives == {"C", "D"}
LowerDrives == {"c", "d"}

\* the sequences of 1..MaxSegs segments
SegLists == UNION {[1..n -> Segments] : n \in 1..MaxSegs}

\* <letter>:\s1\...\sn
HostPath(letter, segs) ==
    <<letter, ":">> \o <<BACKSLASH>> \o Join(segs, <<BACKSLASH>>)

\* /mnt/<letter>/s1/.../sn
GuestPath(letter, segs) == MNT \o <<letter>> \o <<SLASH>> \o Join(segs, <<SLASH>>)

HostPaths == {HostPath(l, segs) : l \in UpperDrives \cup LowerDrives, segs \in SegLists}
GuestPaths == {GuestPath(l, segs) : l \in LowerDrives, segs \in SegLists}

\* guest paths whose drive segment is written in either case
AnyGuestPaths ==
    {GuestPath(l, segs) : l \in UpperDrives \cup LowerDrives, segs \in SegLists}

\* the characters short arbitrary inputs are made of
PathChars == {"C", "1", ":", "/", BACKSLASH}

\* every string over PathChars of at most MaxLen characters
ShortStrings == UNION {[1..n -> PathChars] : n \in 0..MaxLen}

\* inputs near the "/mnt/" prefix without having it
NearMntPaths ==
    {<<"/", "m", "n", "t">>, <<"/", "m", "n", "t", "c", "/", "a">>,
     <<"/", "m", "n">>,
     <<"m", "n", "t", "/", "c", "/", "a">>, <<"/", "M", "N", "T", "/", "c", "/", "a">>,
     <<"/", "/", "m", "n", "t", "/", "c">>}

\* what can stand where the drive letter is expected: nothing, one letter,
\* a word
DriveSegments == {<<>>, <<"c">>, <<"d", "a", "t", "a">>}

\* the segments after the drive segment, empty segments included (a doubled
\* or trailing slash)
TailLists == UNION {[1..n -> Segments \cup {<<>>}] : n \in 0..MaxSegs}

\* /mnt/<drive segment>/s1/.../sn
MntPath(drive, segs) == MNT \o Join(<<drive>> \o segs, <<SLASH>>)

MntPaths == {MntPath(d, segs) : d \in DriveSegments, segs \in TailLists}

PathInputs ==
    HostPaths \cup GuestPaths \cup AnyGuestPaths \cup ShortStrings \cup NearMntPaths
    \cup MntPaths

\* a caller holds a path and has not converted it yet
PathInit ==
    /\ path_pc = "start"
    /\ path_in \in PathInputs
    /\ path_mid = <<>>
    /\ path_out = <<>>

\* wsl_tool.convert_windows_path(path_in)
ToGuest ==
    /\ path_pc = "start"
    /\ path_mid' = convert_windows_path(path_in)
    /\ path_pc' = "guest"
    /\ UNCHANGED <<path_in, path_out>>

\* wsl_tool.convert_to_windows_path(path_in)
ToHost ==
    /\ path_pc = "start"
    /\ path_mid' = convert_to_windows_path(path_in)
    /\ path_pc' = "host"
    /\ UNCHANGED <<path_in, path_out>>

\* the guest path just obtained is converted back
GuestToHost ==
    /\ path_pc = "guest"
    /\ path_out' = convert_to_windows_path(path_mid)
    /\ path_pc' = "guest_host"
    /\ UNCHANGED <<path_in, path_mid>>

\* the host path just obtained is converted back
HostToGuest ==
    /\ path_pc = "host"
    /\ path_out' = convert_windows_path(path_mid)
    /\ path_pc' = "host_guest"
    /\ UNCHANGED <<path_in, path_mid>>

InitPath == BridgeInit /\ PathInit /\ FileIdle

NextPath ==
    \/ ToGuest /\ UNCHANGED <<bridge_vars, file_vars>>
    \/ ToHost /\ UNCHANGED <<bridge_vars, file_vars>>
    \/ GuestToHost /\ UNCHANGED <<bridge_vars, file_vars>>
    \/ HostToGuest /\ UNCHANGED <<bridge_vars, file_vars>>

SpecPath == InitPath /\ [][NextPath]_vars

(***************************************************************************)
(* Properties of the bridge                                                *)
(***************************************************************************)
SimpleAndAdvanced == {"execute_command", "execute_command_advanced"}

\* C1: in execute_command and execute_command_advanced, when the child does
\* not complete within the timeout it is killed and the call returns (it does
\* not raise) the outcome with exit code -1, empty stdout and the fixed,
\* non-empty timeout message in stderr, whatever the child had printed.
C1_TimeoutIsOutcome ==
    \A c \in Calls :
        (call[c].op \in SimpleAndAdvanced /\ child[c].state = "killed")
        => /\ pc[c] = "returned"
           /\ result[c].kind = "outcome"
           /\ result[c].returncode = -1
           /\ result[c].stdout = <<>>
           /\ result[c].stderr = TIMEOUT_MESSAGE
           /\ TIMEOUT_MESSAGE # <<>>

\* an advanced run timed out after its child had printed something
C1_Witness ==
    \E c \in Calls :
        /\ call[c].op = "execute_command_advanced"
        /\ child[c].state = "killed"
        /\ child[c].stdout # <<>>
        /\ pc[c] = "returned"

\* C2: in every bridge method, a timeout or a launch failure is surfaced as
\* data and never as an exception: the method returns, and an outcome it
\* returns carries exit code -1.
C2_FailureIsOutcome ==
    \A c \in Calls :
        child[c].state \in {"killed", "failed"}
        => /\ pc[c] = "returned"
           /\ result[c].kind = "outcome" => result[c].returncode = -1

\* C3: in execute_command and execute_command_advanced, when the child cannot
\* be started the call returns (it does not raise) the outcome with exit code
\* -1, empty stdout and the text of the launch error in stderr.
C3_LaunchErrorIsOutcome ==
    \A c \in Calls :
        (call[c].op \in SimpleAndAdvanced /\ child[c].state = "failed")
        => /\ pc[c] = "returned"
           /\ result[c].kind = "outcome"
           /\ result[c].returncode = -1
           /\ result[c].stdout = <<>>
           /\ result[c].stderr = child[c].error.text

\* a simple run whose launcher was refused by the operating system
C3_Witness ==
    \E c \in Calls :
        /\ call[c].op = "execute_command"
        /\ child[c].state = "failed"
        /\ child[c].error.type = "PermissionError"
        /\ pc[c] = "returned"

\* C4: children exit with a code in 0..255; in every outcome a method returns,
\* the exit code is -1 exactly when the call ended in a timeout or a launch
\* error, and a completed child's exit code is passed through unchanged.
C4_MinusOneIffBridgeFailure ==
    \A c \in Calls :
        result[c].kind = "outcome"
        => /\ (result[c].returncode = -1) <=> (child[c].state \in {"killed", "failed"})
           /\ child[c].state = "exited"
              => /\ child[c].returncode \in 0..255
                 /\ result[c].returncode = child[c].returncode

\* a lifecycle method returned the exit code 255 of its child
C4_Witness ==
    \E c \in Calls :
        /\ call[c].op \in LifecycleOps
        /\ result[c].kind = "outcome"
        /\ child[c].state = "exited"
        /\ result[c].returncode = 255

\* t is s with leading and trailing whitespace removed and nothing else changed
IsTrimOf(t, s) ==
    \E i, j \in 0..Len(s) :
        /\ i + j <= Len(s)
        /\ t = SubSeq(s, i + 1, Len(s) - j)
        /\ \A k \in 1..i : IsSpace(s[k])
        /\ \A k \in (Len(s) - j + 1)..Len(s) : IsSpace(s[k])
        /\ t # <<>> => (~IsSpace(t[1]) /\ ~IsSpace(t[Len(t)]))

\* C5: in execute_command, execute_command_advanced and get_wsl_status, when
\* the child completes within the timeout the outcome carries the child's exit
\* code and the child's stdout and stderr with leading and trailing whitespace
\* removed and nothing else changed; output "hi\n" with exit code 0 gives
\* the outcome (0, "hi", "").
C5_CompletedIsTrimmed ==
    \A c \in Calls :
        (call[c].op \in SimpleAndAdvanced \cup {"get_wsl_status"}
         /\ child[c].state = "exited")
        => /\ pc[c] = "returned"
           /\ result[c].kind = "outcome"
           /\ result[c].returncode = child[c].returncode
           /\ IsTrimOf(result[c].stdout, child[c].stdout)
           /\ IsTrimOf(result[c].stderr, child[c].stderr)
           /\ (child[c].returncode = 0 /\ child[c].stdout = <<"h", "i", "\n">>
               /\ child[c].stderr = <<>>)
              => result[c] = WSLCommandResult(0, <<"h", "i">>, <<>>)

\* a status query whose child printed text padded with whitespace on both sides
C5_Witness ==
    \E c \in Calls :
        /\ call[c].op = "get_wsl_status"
        /\ child[c].state = "exited"
        /\ child[c].stdout = <<" ", "\t", "a", " ", "b", " ", "\n">>
        /\ result[c].stdout = <<"a", " ", "b">>

\* C6: every call spawns exactly one child: a call in flight or ended has made
\* exactly one launch attempt, whether it ended in a timeout, a launch error
\* or a nonzero exit.
C6_OneChildPerCall ==
    \A c \in Calls :
        /\ pc[c] = "idle" => launches[c] = 0
        /\ pc[c] # "idle" => launches[c] = 1

\* calls ended by a timeout, by a launch error and by a nonzero exit
C6_Witness ==
    /\ \E c \in Calls : child[c].state = "killed" /\ launches[c] = 1
    /\ \E c \in Calls : \/ child[c].state = "failed" /\ launches[c] = 1
                        \/ /\ child[c].state = "exited"
                           /\ child[c].returncode # 0
                           /\ launches[c] = 1

\* a flag and its value, present exactly when the value is non-empty
Flag(name, v) == IF v = "" THEN <<>> ELSE <<name, v>>

\* C7: the argument vector handed to the launcher is
\*   simple run:   [launcher, sh, -c, command]
\*   with distro:  [launcher] + [-d name if non-empty] + [sh, -c, command]
\*   advanced run: [launcher] + [-d distribution] + [-u user] + [--cd dir]
\*                 + [--shell-type type] + [--exec, sh, -c, command]
\* each flag pair present exactly when its option is non-empty.
C7_ArgumentVector ==
    \A c \in Calls :
        LET p == call[c].params
        IN  /\ call[c].op = "execute_command"
               => argv[c] = <<"wsl.exe", "sh", "-c", p.command>>
            /\ call[c].op = "execute_command_with_distro"
               => argv[c] = <<"wsl.exe">> \o Flag("-d", p.distribution)
                            \o <<"sh", "-c", p.command>>
            /\ call[c].op = "execute_command_advanced"
               => argv[c] = <<"wsl.exe">> \o Flag("-d", p.distribution)
                            \o Flag("-u", p.user) \o Flag("--cd", p.working_dir)
                            \o Flag("--shell-type", p.shell_type)
                            \o <<"--exec", "sh", "-c", p.command>>

\* an advanced run with the distribution and shell type omitted, the user and
\* working directory given
C7_Witness ==
    \E c \in Calls :
        /\ call[c].op = "execute_command_advanced"
        /\ argv[c] = <<"wsl.exe", "-u", "root", "--cd", "~",
                       "--exec", "sh", "-c", "ls -la /tmp">>

(***************************************************************************)
(* Properties of the path translator                                       *)
(***************************************************************************)
\* host paths with the drive letter in upper case
CanonicalHostPaths == {HostPath(l, segs) : l \in UpperDrives, segs \in SegLists}

\* C8: for a canonical host path P = X:\s1\...\sn,
\* convert_to_windows_path(convert_windows_path(P)) = P.
C8_HostRoundTrip ==
    (path_pc = "guest_host" /\ path_in \in CanonicalHostPaths) => path_out = path_in

\* C9: for a canonical guest path Q = /mnt/x/s1/.../sn,
\* convert_windows_path(convert_to_windows_path(Q)) = Q.
C9_GuestRoundTrip ==
    (path_pc = "host_guest" /\ path_in \in GuestPaths) => path_out = path_in

\* C10: for a host path <letter>:\s1\...\sn, convert_windows_path returns
\* /mnt/<lower-cased letter>/s1/.../sn, with no doubled slash.
C10_ToGuestPath ==
    \A l \in UpperDrives \cup LowerDrives, segs \in SegLists :
        (path_pc = "guest" /\ path_in = HostPath(l, segs))
        => /\ path_mid = GuestPath(Lower(l), segs)
           /\ \A i \in 1..(Len(path_mid) - 1) :
                 ~(path_mid[i] = SLASH /\ path_mid[i + 1] = SLASH)

\* C11: for a guest path /mnt/<letter>/s1/.../sn, convert_to_windows_path
\* returns <upper-cased letter>:\s1\...\sn.
C11_ToHostPath ==
    \A l \in UpperDrives \cup LowerDrives, segs \in SegLists :
        (path_pc = "host" /\ path_in = GuestPath(l, segs))
        => path_mid = <<Upper(l), ":", BACKSLASH>> \o Join(segs, <<BACKSLASH>>)

\* /mnt/c/a/Bb has been converted to C:\a\Bb
C11_Witness ==
    /\ path_pc = "host"
    /\ path_in = <<"/", "m", "n", "t", "/", "c", "/", "a", "/", "B", "b">>
    /\ path_mid = <<"C", ":", BACKSLASH, "a", BACKSLASH, "B", "b">>

\* a letter of the alphabet
IsLetter(ch) == \E p \in LetterPairs : ch \in {p[1], p[2]}

\* the input has no <letter>: prefix
LacksDrivePrefix(s) == Len(s) < 2 \/ ~IsLetter(s[1]) \/ s[2] # ":"

\* C12: for an input without a drive-letter-colon prefix (shorter than two
\* characters, or first character not a letter, or second character not ':'),
\* convert_windows_path returns the input unchanged.
C12_NoDrivePassThrough ==
    (path_pc = "guest" /\ LacksDrivePrefix(path_in)) => path_mid = path_in

\* the input does not start with "/mnt/"
LacksMntPrefix(s) ==
    \/ Len(s) < 5
    \/ s[1] # "/" \/ s[2] # "m" \/ s[3] # "n" \/ s[4] # "t" \/ s[5] # "/"

\* C13: for an input that does not start with "/mnt/" (such as "/mnt" and
\* the empty string), convert_to_windows_path returns the input unchanged.
C13_NoMntPassThrough ==
    (path_pc = "host" /\ LacksMntPrefix(path_in)) => path_mid = path_in

\* "/mnt" without the trailing slash has been passed through
C13_Witness ==
    /\ path_pc = "host"
    /\ path_in = <<"/", "m", "n", "t">>
    /\ path_mid = <<"/", "m", "n", "t">>

\* the lifecycle methods that answer with a confirmation message
ConfirmingOps == LifecycleOps \ {"get_wsl_status"}

\* the confirmation message of each of them
Confirmation(o, p) ==
    CASE o = "shutdown_wsl" -> <<"WSL shut down">>
      [] o = "terminate_distribution" -> <<"distribution ", p.distribution, " terminated">>
      [] o = "set_default_distribution" -> <<p.distribution, " set as default distribution">>
      [] o = "export_distribution" -> <<"distribution exported to ", p.file_path>>
      [] o = "import_distribution" -> <<"distribution ", p.distribution, " imported">>
      [] o = "unregister_distribution" -> <<"distribution ", p.distribution, " unregistered">>
      [] o = "install_distribution" -> <<"installing distribution...">>

\* C23: for shutdown, terminate, set-default, export, import, unregister and
\* install, the outcome's stdout is the method's confirmation message when the
\* child exited with 0 and empty otherwise, never the child's own stdout; the
\* outcome's stderr is the child's trimmed stderr; on a timeout the outcome is
\* -1 with empty stdout and the text of the TimeoutExpired exception in stderr,
\* not the fixed message of the run methods.
C23_LifecycleOutcome ==
    \A c \in Calls :
        (call[c].op \in ConfirmingOps /\ child[c].state \in {"exited", "killed"}) =>
            /\ pc[c] = "returned"
            /\ result[c].kind = "outcome"
            /\ child[c].state = "exited" =>
                  /\ result[c].stdout =
                        IF child[c].returncode = 0
                        THEN Confirmation(call[c].op, call[c].params) ELSE <<>>
                  /\ child[c].stdout # <<>> =>
                        result[c].stdout \notin {child[c].stdout, Strip(child[c].stdout)}
                  /\ IsTrimOf(result[c].stderr, child[c].stderr)
            /\ child[c].state = "killed" =>
                  /\ result[c].returncode = -1
                  /\ result[c].stdout = <<>>
                  /\ result[c].stderr =
                        <<"Command timed out after ",
                          ToString(TimeoutOf(call[c].op, call[c].params)), " seconds">>
                  /\ result[c].stderr # TIMEOUT_MESSAGE

\* an export was killed at its timeout of 300 seconds
C23_Witness ==
    \E c \in Calls :
        /\ call[c].op = "export_distribution"
        /\ child[c].state = "killed"
        /\ result[c].returncode = -1
        /\ result[c].stderr = <<"Command timed out after ", "300", " seconds">>

\* C24: every input of convert_to_windows_path that starts with "/mnt/" is
\* translated and never returned unchanged: the split always has at least
\* three parts, and the whole third part, whatever its length (empty, one
\* letter, a word), is upper-cased and used as the drive, followed by ":\"
\* and the remaining parts joined by backslashes.
C24_MntAlwaysTranslated ==
    /\ (path_pc = "host" /\ ~LacksMntPrefix(path_in)) => path_mid # path_in
    /\ \A d \in DriveSegments, segs \in TailLists :
          (path_pc = "host" /\ path_in = MntPath(d, segs))
          => path_mid = UpperStr(d) \o <<":", BACKSLASH>> \o Join(segs, <<BACKSLASH>>)

\* /mnt/data/a has been converted to DATA:\a
C24_Witness ==
    /\ path_pc = "host"
    /\ path_in = <<"/", "m", "n", "t", "/", "d", "a", "t", "a", "/", "a">>
    /\ path_mid = <<"D", "A", "T", "A", ":", BACKSLASH, "a">>

(***************************************************************************)
(* File manager: tools/file_manager.py                                     *)
(*                                                                         *)
(* Each tool function builds one shell command from an f-string, hands it  *)
(* to wsl_tool.execute_command and turns the WSLCommandResult into a dict. *)
(* A command is the sequence of the f-string's pieces: the literal pieces  *)
(* are strings, a str argument contributes its characters, an int argument *)
(* its decimal text.  A dict is a record; its keys are written in English. *)
(***************************************************************************)
MaxLines == 2

\* Optional[int]
None == [is_none |-> TRUE]
Some(n) == [is_none |-> FALSE, value |-> n]

\* the truth value of an Optional[int] in "if end_line:"
Truthy(x) == ~x.is_none /\ x.value # 0

\* str(x) of an Optional[int] inside an f-string
Shown(x) == IF x.is_none THEN "None" ELSE ToString(x.value)

\* EscapeQuotes that puts a backslash before each single quote
EscapeQuotes_Backslash(content) == Replace(content, <<"'">>, <<BACKSLASH, "'">>)

\* content.replace("'", "'\"'\"'")
EscapeQuotes(content) == Replace(content, <<"'">>, <<"'", "\"", "'", "\"", "'">>)

read_file_command(a) == <<"cat '">> \o a.file_path \o <<"'">>
write_file_command(a) ==
    <<"echo '">> \o EscapeQuotes(a.content) \o <<"' > '">> \o a.file_path \o <<"'">>
append_to_file_command(a) ==
    <<"echo '">> \o EscapeQuotes(a.content) \o <<"' >> '">> \o a.file_path \o <<"'">>
create_directory_command(a) ==
    IF a.parents THEN <<"mkdir -p '">> \o a.dir_path \o <<"'">>
    ELSE <<"mkdir '">> \o a.dir_path \o <<"'">>
list_directory_command(a) == <<"ls -la '">> \o a.dir_path \o <<"'">>
delete_file_command(a) ==
    IF a.recursive THEN <<"rm -rf '">> \o a.file_path \o <<"'">>
    ELSE <<"rm -f '">> \o a.file_path \o <<"'">>
copy_file_command(a) ==
    IF a.recursive
    THEN <<"cp -r '">> \o a.source \o <<"' '">> \o a.destination \o <<"'">>
    ELSE <<"cp '">> \o a.source \o <<"' '">> \o a.destination \o <<"'">>
move_file_command(a) == <<"mv '">> \o a.source \o <<"' '">> \o a.destination \o <<"'">>
get_file_info_command(a) == <<"stat '">> \o a.file_path \o <<"'">>
file_exists_command(a) ==
    <<"if [ -e '">> \o a.file_path \o <<"' ]; then echo 'exists'; else echo 'not_exists'; fi">>
is_directory_command(a) ==
    <<"if [ -d '">> \o a.path \o <<"' ]; then echo 'dir'; else echo 'not_dir'; fi">>
is_file_command(a) ==
    <<"if [ -f '">> \o a.path \o <<"' ]; then echo 'file'; else echo 'not_file'; fi">>
get_current_directory_command(a) == <<"pwd">>
change_directory_command(a) == <<"cd '">> \o a.dir_path \o <<"' && pwd">>

read_file_lines_command(a) ==
    IF Truthy(a.end_line)
    THEN <<"sed -n '", ToString(a.start_line), ",", Shown(a.end_line), "p' '">>
             \o a.file_path \o <<"'">>
    ELSE <<"sed -n '", ToString(a.start_line), ",$p' '">> \o a.file_path \o <<"'">>
search_in_file_command(a) ==
    IF a.use_regex
    THEN <<"grep -n '">> \o a.pattern \o <<"' '">> \o a.file_path \o <<"'">>
    ELSE <<"grep -nF '">> \o a.pattern \o <<"' '">> \o a.file_path \o <<"'">>

\* the "else" branch of a tool function: {成功: False, <path>, 错误: result.stderr}
FailureDict(path, res) == [success |-> FALSE, path |-> path, error |-> res.stderr]

\* the loop of list_directory over the lines of the listing
RECURSIVE ParseListing(_)
ParseListing(lines) ==
    IF lines = <<>> THEN <<>>
    ELSE LET line == Head(lines)
             parts == SplitWS(line)
         IN  IF line # <<>> /\ Len(parts) >= 9
             THEN <<[name |-> Join(SubSeq(parts, 9, Len(parts)), <<" ">>),
                     permissions |-> parts[1],
                     type |-> IF StartsWith(parts[1], <<"d">>)
                              THEN "directory" ELSE "file"]>>
                      \o ParseListing(Tail(lines))
             ELSE ParseListing(Tail(lines))

read_file_return(a, res) ==
    IF res.returncode = 0
    THEN [success |-> TRUE, path |-> a.file_path, content |-> res.stdout]
    ELSE FailureDict(a.file_path, res)
write_file_return(a, res) ==
    IF res.returncode = 0
    THEN [success |-> TRUE, path |-> a.file_path, message |-> "file written"]
    ELSE FailureDict(a.file_path, res)
append_to_file_return(a, res) ==
    IF res.returncode = 0
    THEN [success |-> TRUE, path |-> a.file_path, message |-> "content appended"]
    ELSE FailureDict(a.file_path, res)
create_directory_return(a, res) ==
    IF res.returncode = 0
    THEN [success |-> TRUE, path |-> a.dir_path, message |-> "directory created"]
    ELSE FailureDict(a.dir_path, res)
\* list_directory that counts the lines of the listing instead of the entries
list_directory_return_CountsLines(a, res) ==
    IF res.returncode = 0
    THEN LET items == ParseListing(Split(Strip(res.stdout), "\n"))
         IN  [success |-> TRUE, path |-> a.dir_path,
              item_count |-> Len(Split(Strip(res.stdout), "\n")), items |-> items]
    ELSE FailureDict(a.dir_path, res)

list_directory_return(a, res) ==
    IF res.returncode = 0
    THEN LET items == ParseListing(Split(Strip(res.stdout), "\n"))
         IN  [success |-> TRUE, path |-> a.dir_path,
              item_count |-> Len(items), items |-> items]
    ELSE FailureDict(a.dir_path, res)
delete_file_return(a, res) ==
    IF res.returncode = 0
    THEN [success |-> TRUE, path |-> a.file_path, message |-> "deleted"]
    ELSE FailureDict(a.file_path, res)
copy_file_return(a, res) ==
    IF res.returncode = 0
    THEN [success |-> TRUE, path |-> a.source, destination |-> a.destination,
          message |-> "copied"]
    ELSE [success |-> FALSE, path |-> a.source, destination |-> a.destination,
          error |-> res.stderr]
move_file_return(a, res) ==
    IF res.returncode = 0
    THEN [success |-> TRUE, path |-> a.source, destination |-> a.destination,
          message |-> "moved"]
    ELSE [success |-> FALSE, path |-> a.source, destination |-> a.destination,
          error |-> res.stderr]
\* get_file_info that takes a silent child for a failed one
get_file_info_return_EmptyIsFailure(a, res) ==
    IF res.returncode = 0 /\ res.stdout # <<>>
    THEN [success |-> TRUE, path |-> a.file_path, details |-> res.stdout]
    ELSE FailureDict(a.file_path, res)

get_file_info_return(a, res) ==
    IF res.returncode = 0
    THEN [success |-> TRUE, path |-> a.file_path, details |-> res.stdout]
    ELSE FailureDict(a.file_path, res)
\* the three checks never look at result.returncode
file_exists_return(a, res) ==
    [success |-> TRUE, path |-> a.file_path,
     answer |-> (res.stdout = <<"e", "x", "i", "s", "t", "s">>)]
is_directory_return(a, res) ==
    [success |-> TRUE, path |-> a.path, answer |-> (res.stdout = <<"d", "i", "r">>)]
is_file_return(a, res) ==
    [success |-> TRUE, path |-> a.path, answer |-> (res.stdout = <<"f", "i", "l", "e">>)]
get_current_directory_return(a, res) ==
    IF res.returncode = 0
    THEN [success |-> TRUE, current_directory |-> res.stdout]
    ELSE [success |-> FALSE, error |-> res.stderr]
change_directory_return(a, res) ==
    IF res.returncode = 0
    THEN [success |-> TRUE, new_directory |-> res.stdout]
    ELSE FailureDict(a.dir_path, res)
read_file_lines_return(a, res) ==
    IF res.returncode = 0
    THEN [success |-> TRUE, path |-> a.file_path, start_line |-> a.start_line,
          end_line |-> a.end_line, content |-> res.stdout]
    ELSE FailureDict(a.file_path, res)
search_in_file_return(a, res) ==
    IF res.returncode = 0
    THEN LET lines == IF res.stdout # <<>>
                      THEN Split(Strip(res.stdout), "\n") ELSE <<>>
         IN  [success |-> TRUE, path |-> a.file_path, pattern |-> a.pattern,
              match_count |-> Len(lines), matches |-> lines]
    ELSE [success |-> FALSE, path |-> a.file_path, pattern |-> a.pattern,
          error |-> res.stderr]

\* the tool functions that report the exit code of their command
NonCheckOps ==
    {"read_file", "write_file", "append_to_file", "create_directory",
     "list_directory", "delete_file", "copy_file", "move_file", "get_file_info",
     "get_current_directory", "change_directory", "read_file_lines",
     "search_in_file"}
\* the existence and type checks
CheckOps == {"file_exists", "is_directory", "is_file"}
FileOps == NonCheckOps \cup CheckOps

FileCommand(f, a) ==
    CASE f = "read_file" -> read_file_command(a)
      [] f = "write_file" -> write_file_command(a)
      [] f = "append_to_file" -> append_to_file_command(a)
      [] f = "create_directory" -> create_directory_command(a)
      [] f = "list_directory" -> list_directory_command(a)
      [] f = "delete_file" -> delete_file_command(a)
      [] f = "copy_file" -> copy_file_command(a)
      [] f = "move_file" -> move_file_command(a)
      [] f = "get_file_info" -> get_file_info_command(a)
      [] f = "file_exists" -> file_exists_command(a)
      [] f = "is_directory" -> is_directory_command(a)
      [] f = "is_file" -> is_file_command(a)
      [] f = "get_current_directory" -> get_current_directory_command(a)
      [] f = "change_directory" -> change_directory_command(a)
      [] f = "read_file_lines" -> read_file_lines_command(a)
      [] f = "search_in_file" -> search_in_file_command(a)

FileReturn(f, a, res) ==
    CASE f = "read_file" -> read_file_return(a, res)
      [] f = "write_file" -> write_file_return(a, res)
      [] f = "append_to_file" -> append_to_file_return(a, res)
      [] f = "create_directory" -> create_directory_return(a, res)
      [] f = "list_directory" -> list_directory_return(a, res)
      [] f = "delete_file" -> delete_file_return(a, res)
      [] f = "copy_file" -> copy_file_return(a, res)
      [] f = "move_file" -> move_file_return(a, res)
      [] f = "get_file_info" -> get_file_info_return(a, res)
      [] f = "file_exists" -> file_exists_return(a, res)
      [] f = "is_directory" -> is_directory_return(a, res)
      [] f = "is_file" -> is_file_return(a, res)
      [] f = "get_current_directory" -> get_current_directory_return(a, res)
      [] f = "change_directory" -> change_directory_return(a, res)
      [] f = "read_file_lines" -> read_file_lines_return(a, res)
      [] f = "search_in_file" -> search_in_file_return(a, res)

(***************************************************************************)
(* Arguments of the tool functions and what their commands print           *)
(***************************************************************************)
F_path == <<"/", "a">>
F_other == <<"b">>
F_contents == {<<"h", "i">>, <<"i", "t", "'", "s">>}
F_ends == {None, Some(0), Some(2)}

FileArgs(f) ==
    CASE f \in {"read_file", "get_file_info", "file_exists"} ->
            {[file_path |-> F_path]}
      [] f \in {"write_file", "append_to_file"} ->
            {[file_path |-> F_path, content |-> t] : t \in F_contents}
      [] f = "create_directory" ->
            {[dir_path |-> F_path, parents |-> b] : b \in BOOLEAN}
      [] f \in {"list_directory", "change_directory"} ->
            {[dir_path |-> F_path]}
      [] f = "delete_file" ->
            {[file_path |-> F_path, recursive |-> b] : b \in BOOLEAN}
      [] f = "copy_file" ->
            {[source |-> F_path, destination |-> F_other, recursive |-> b] :
                b \in BOOLEAN}
      [] f = "move_file" -> {[source |-> F_path, destination |-> F_other]}
      [] f \in {"is_directory", "is_file"} -> {[path |-> F_path]}
      [] f = "get_current_directory" -> {[none |-> TRUE]}
      [] f = "read_file_lines" ->
            {[file_path |-> F_path, start_line |-> 1, end_line |-> e] :
                e \in F_ends}
      [] f = "search_in_file" ->
            {[file_path |-> F_path, pattern |-> F_other, use_regex |-> b] :
                b \in BOOLEAN}

\* the lines "ls -la" can print, as token lists and the blanks between tokens
LsFields == <<<<"1">>, <<"u">>, <<"g">>, <<"0">>, <<"M">>, <<"1">>, <<"0">>>>
LsLineKinds ==
    {[tokens |-> <<<<"d", "r">>>> \o LsFields \o <<<<"x">>>>, sep |-> <<" ">>],
     [tokens |-> <<<<"-", "r">>>> \o LsFields \o <<<<"m", "y">>, <<"f">>>>,
      sep |-> <<" ", " ">>],
     [tokens |-> <<<<"l", "r">>>> \o LsFields \o <<<<"k">>, <<"-", ">">>, <<"x">>>>,
      sep |-> <<" ">>],
     [tokens |-> <<<<"-", "d">>>> \o LsFields, sep |-> <<" ">>],
     [tokens |-> <<<<"t", "o", "t", "a", "l">>, <<"8">>>>, sep |-> <<" ">>],
     [tokens |-> <<>>, sep |-> <<" ">>]}
Listings == UNION {[1..n -> LsLineKinds] : n \in 0..MaxLines}

\* the text of a line and of a listing
RenderLine(l) == Join(l.tokens, l.sep)
RECURSIVE RenderListing(_)
RenderListing(ls) ==
    IF ls = <<>> THEN <<>>
    ELSE RenderLine(Head(ls)) \o <<"\n">> \o RenderListing(Tail(ls))

\* what the command of a tool function can leave behind when it exits
FileProcesses ==
    CompletedProcesses
    \cup {[returncode |-> 0, stdout |-> t \o <<"\n">>, stderr |-> T_empty] :
            t \in {<<"e", "x", "i", "s", "t", "s">>, <<"d", "i", "r">>,
                   <<"f", "i", "l", "e">>, <<"n", "o", "t", "_", "d", "i", "r">>}}
    \cup {[returncode |-> 0, stdout |-> RenderListing(ls), stderr |-> T_empty] :
            ls \in Listings}

(***************************************************************************)
(* Actions of the file manager.  The tool functions run on the thread of   *)
(* caller 1 and are synchronous: the step in which wsl_tool.execute_command*)
(* returns is the step in which the tool function returns its dict.        *)
(***************************************************************************)
\* the parameters of wsl_tool.execute_command(command)
BridgeCall(f, a) == [Defaults EXCEPT !.command = FileCommand(f, a)]

\* the tool function builds its command and execute_command starts the child
FileInvoke(f, a) ==
    /\ file_pc = "idle"
    /\ Launch(1, "execute_command", BridgeCall(f, a))
    /\ file_pc' = "waiting"
    /\ file_call' = [op |-> f, args |-> a]
    /\ file_runs' = file_runs + 1
    /\ UNCHANGED file_result

\* the tool function builds its command and the launcher cannot be started
FileInvokeFails(f, a, e) ==
    /\ file_pc = "idle"
    /\ LaunchFails(1, "execute_command", BridgeCall(f, a), e)
    /\ file_pc' = "done"
    /\ file_call' = [op |-> f, args |-> a]
    /\ file_runs' = file_runs + 1
    /\ file_result' = FileReturn(f, a, result'[1])

\* the command exits and the tool function builds its dict
FileChildExits(r) ==
    /\ file_pc = "waiting"
    /\ ChildExits(1, r)
    /\ file_pc' = "done"
    /\ file_result' = FileReturn(file_call.op, file_call.args, result'[1])
    /\ UNCHANGED <<file_call, file_runs>>

\* the command is killed at the timeout and the tool function builds its dict
FileTimeoutExpires(printed) ==
    /\ file_pc = "waiting"
    /\ TimeoutExpires(1, printed)
    /\ file_pc' = "done"
    /\ file_result' = FileReturn(file_call.op, file_call.args, result'[1])
    /\ UNCHANGED <<file_call, file_runs>>

\* the caller of the tool function has taken the dict
FileFinish ==
    /\ file_pc = "done"
    /\ Finish(1)
    /\ file_pc' = "idle"
    /\ file_call' = NoCall
    /\ file_result' = NoResult
    /\ file_runs' = 0

NextFile ==
    \/ \E f \in FileOps : \E a \in FileArgs(f) :
          FileInvoke(f, a) /\ UNCHANGED path_vars
    \/ \E f \in FileOps, e \in LaunchErrors : \E a \in FileArgs(f) :
          FileInvokeFails(f, a, e) /\ UNCHANGED path_vars
    \/ \E r \in FileProcesses : FileChildExits(r) /\ UNCHANGED path_vars
    \/ \E printed \in PartialOutputs : FileTimeoutExpires(printed) /\ UNCHANGED path_vars
    \/ FileFinish /\ UNCHANGED path_vars

SpecFile == Init /\ [][NextFile]_vars

(***************************************************************************)
(* Claims about the file manager                                           *)
(***************************************************************************)
\* the keys of a dict that carry what the operation produced
PayloadKeys ==
    {"content", "message", "item_count", "items", "details", "answer",
     "current_directory", "new_directory", "match_count", "matches"}

\* C14: a non-check file operation makes exactly one call of the bridge's
\* execute_command; its dict has success true if and only if the outcome's
\* returncode is 0; with a nonzero returncode (-1 included) the dict carries
\* the outcome's stderr unchanged as the error and no payload key.
C14_NonCheckReportsExitCode ==
    (file_pc # "idle" /\ file_call.op \in NonCheckOps) =>
        /\ file_runs = 1
        /\ launches[1] = 1
        /\ call[1].op = "execute_command"
        /\ file_pc = "done" =>
              /\ result[1].kind = "outcome"
              /\ file_result.success <=> (result[1].returncode = 0)
              /\ result[1].returncode # 0 =>
                    /\ "error" \in DOMAIN file_result
                    /\ file_result.error = result[1].stderr
                    /\ DOMAIN file_result \cap PayloadKeys = {}
              /\ result[1].returncode = 0 => "error" \notin DOMAIN file_result

\* a listing was requested, the launcher could not be started, and the dict
\* carries the text of the error
C14_Witness ==
    /\ file_pc = "done"
    /\ file_call.op = "list_directory"
    /\ child[1].state = "failed"
    /\ result[1].returncode = -1
    /\ ~file_result.success
    /\ file_result.error = <<"[WinError 5] Access is denied">>

\* the word a check's command prints for "yes"
Sentinel(f) ==
    CASE f = "file_exists" -> <<"e", "x", "i", "s", "t", "s">>
      [] f = "is_directory" -> <<"d", "i", "r">>
      [] f = "is_file" -> <<"f", "i", "l", "e">>

\* C15: for file_exists, is_directory and is_file a nonzero returncode of the
\* bridge outcome (-1 included) is reported as failure with the outcome's
\* stderr as the error; success is reported only with returncode 0, and then
\* the answer is true exactly when the trimmed stdout is the sentinel.
C15_CheckReportsExitCode ==
    (file_pc = "done" /\ file_call.op \in CheckOps) =>
        /\ result[1].returncode # 0 =>
              /\ ~file_result.success
              /\ "error" \in DOMAIN file_result
              /\ file_result.error = result[1].stderr
        /\ file_result.success =>
              /\ result[1].returncode = 0
              /\ file_result.answer <=>
                    (Strip(child[1].stdout) = Sentinel(file_call.op))

\* the entries a listing holds, from the token lists it was printed from
RECURSIVE ExpectedEntries(_)
ExpectedEntries(ls) ==
    IF ls = <<>> THEN <<>>
    ELSE LET t == Head(ls).tokens
         IN  (IF Len(t) >= 9
              THEN <<[name |-> Join(SubSeq(t, 9, Len(t)), <<" ">>),
                      permissions |-> t[1],
                      type |-> IF t[1][1] = "d" THEN "directory" ELSE "file"]>>
              ELSE <<>>)
             \o ExpectedEntries(Tail(ls))

\* C16: list_directory on returncode 0 returns, in the order of the input,
\* one entry for each line of at least 9 whitespace-separated tokens, with
\* the first token as permissions, tokens 9 onward joined by single blanks as
\* name, and type "directory" exactly when the permissions start with "d";
\* shorter lines are skipped, and the item count is the number of entries.
C16_ListingParsed ==
    (/\ file_pc = "done"
     /\ file_call.op = "list_directory"
     /\ child[1].state = "exited"
     /\ child[1].returncode = 0) =>
        /\ file_result.success
        /\ file_result.item_count = Len(file_result.items)
        /\ \A ls \in Listings :
              child[1].stdout = RenderListing(ls) =>
                  file_result.items = ExpectedEntries(ls)

\* a listing of a file with a two-word name and of a line of 8 tokens
C16_Witness ==
    /\ file_pc = "done"
    /\ file_call.op = "list_directory"
    /\ child[1].state = "exited"
    /\ child[1].returncode = 0
    /\ child[1].stdout =
          RenderListing(<<[tokens |-> <<<<"-", "r">>>> \o LsFields \o <<<<"m", "y">>, <<"f">>>>,
                           sep |-> <<" ", " ">>],
                          [tokens |-> <<<<"-", "d">>>> \o LsFields, sep |-> <<" ">>]>>)
    /\ file_result.item_count = 1
    /\ file_result.items[1].name = <<"m", "y", " ", "f">>
    /\ file_result.items[1].type = "file"

\* C18: read_file_lines builds sed -n '<start>,$p' exactly when no end line
\* is supplied and sed -n '<start>,<end>p' for every supplied end line,
\* 0 included.
C18_BoundedWhenSupplied ==
    (file_pc # "idle" /\ file_call.op = "read_file_lines") =>
        call[1].params.command =
            IF file_call.args.end_line.is_none
            THEN <<"sed -n '", ToString(file_call.args.start_line), ",$p' '">>
                     \o file_call.args.file_path \o <<"'">>
            ELSE <<"sed -n '", ToString(file_call.args.start_line), ",",
                   ToString(file_call.args.end_line.value), "p' '">>
                     \o file_call.args.file_path \o <<"'">>

(***************************************************************************)
(* list_distributions on the tables the launcher can print                 *)
(***************************************************************************)
MaxRows == 2

\* the rows of "wsl.exe -l --verbose", as token lists and the blanks
\* before the first token and between tokens
RowKinds ==
    {[tokens |-> <<<<"U", "b">>, <<"R", "u", "n">>, <<"2">>>>, indent |-> <<" ", " ">>,
      sep |-> <<" ", " ">>],
     [tokens |-> <<<<"*">>, <<"U", "b">>, <<"R", "u", "n">>, <<"2">>>>, indent |-> <<>>,
      sep |-> <<" ">>],
     [tokens |-> <<<<"D">>, <<"S">>>>, indent |-> <<>>, sep |-> <<"\t">>],
     [tokens |-> <<<<"D">>>>, indent |-> <<>>, sep |-> <<" ">>],
     [tokens |-> <<>>, indent |-> <<" ">>, sep |-> <<" ">>],
     [tokens |-> <<>>, indent |-> <<>>, sep |-> <<" ">>]}
\* the header row "  NAME  STATE  VERSION"
HeaderRow ==
    [tokens |-> <<<<"N">>, <<"S">>, <<"V">>>>, indent |-> <<" ", " ">>, sep |-> <<" ", " ">>]

\* a table: blank lines the launcher may print first, the header, the rows
Tables ==
    {[lead |-> l, rows |-> rs] :
        l \in {<<>>, <<"\n">>}, rs \in UNION {[1..n -> RowKinds] : n \in 0..MaxRows}}

RenderRow(row) == row.indent \o Join(row.tokens, row.sep)
RECURSIVE RenderRows(_)
RenderRows(rs) ==
    IF rs = <<>> THEN <<>>
    ELSE RenderRow(Head(rs)) \o <<"\n">> \o RenderRows(Tail(rs))
RenderTable(tb) == tb.lead \o RenderRow(HeaderRow) \o <<"\n">> \o RenderRows(tb.rows)

\* how "wsl.exe -l --verbose" can exit
TableProcesses ==
    {[returncode |-> rc, stdout |-> RenderTable(tb), stderr |-> T_empty] :
        rc \in {0, 1}, tb \in Tables}
    \cup {[returncode |-> 0, stdout |-> t, stderr |-> T_empty] : t \in {T_empty, T_padded}}

NextList ==
    \/ \E p \in P_none :
          Launch(1, "list_distributions", p) /\ UNCHANGED <<path_vars, file_vars>>
    \/ \E e \in LaunchErrors, p \in P_none :
          LaunchFails(1, "list_distributions", p, e)
          /\ UNCHANGED <<path_vars, file_vars>>
    \/ \E r \in TableProcesses : ChildExits(1, r) /\ UNCHANGED <<path_vars, file_vars>>
    \/ \E printed \in PartialOutputs :
          TimeoutExpires(1, printed) /\ UNCHANGED <<path_vars, file_vars>>
    \/ Finish(1) /\ UNCHANGED <<path_vars, file_vars>>

SpecList == Init /\ [][NextList]_vars

\* the descriptors of a table, from the token lists it was printed from
RECURSIVE ExpectedDescriptors(_)
ExpectedDescriptors(rs) ==
    IF rs = <<>> THEN <<>>
    ELSE LET t == Head(rs).tokens
         IN  (IF t # <<>>
              THEN <<[name |-> t[1],
                      state |-> IF Len(t) >= 2 THEN t[2] ELSE <<>>,
                      version |-> IF Len(t) >= 3 THEN t[3] ELSE <<>>]>>
              ELSE <<>>)
             \o ExpectedDescriptors(Tail(rs))

\* C17: list_distributions on returncode 0 returns, in order, one descriptor
\* for each non-blank line after the header line (the first line of the
\* output once surrounding whitespace is removed), with name, state, version
\* the line's 1st, 2nd, 3rd whitespace token and empty text for an absent
\* 2nd or 3rd token; no line makes the method raise; on a nonzero
\* returncode it returns the empty list.
C17_TableParsed ==
    (/\ call[1].op = "list_distributions"
     /\ child[1].state = "exited") =>
        /\ pc[1] = "returned"
        /\ result[1].kind = "value"
        /\ child[1].returncode # 0 => result[1].value = <<>>
        /\ child[1].returncode = 0 =>
              \A tb \in Tables :
                  child[1].stdout = RenderTable(tb) =>
                      result[1].value = ExpectedDescriptors(tb.rows)

\* a table printed after a blank line, with a row of one token and a blank row
C17_Witness ==
    /\ call[1].op = "list_distributions"
    /\ child[1].state = "exited"
    /\ child[1].returncode = 0
    /\ child[1].stdout =
          <<"\n", " ", " ", "N", " ", " ", "S", " ", " ", "V", "\n", "D", "\n", " ", "\n">>
    /\ result[1].value = <<[name |-> <<"D">>, state |-> <<>>, version |-> <<>>]>>

(***************************************************************************)
(* Concurrent calls on the shared instance, and termination                *)
(***************************************************************************)
\* what belongs to the call of caller c
Slot(c) == <<pc[c], call[c], argv[c], child[c], result[c], launches[c]>>

\* the outcome the method computes from the call's own parameters and child
OwnOutcome(c) ==
    CASE child[c].state = "exited" ->
            OnOk(call[c].op, call[c].params,
                 [returncode |-> child[c].returncode, stdout |-> child[c].stdout,
                  stderr |-> child[c].stderr])
      [] child[c].state = "killed" ->
            OnExc(call[c].op, TimeoutExpired(TimeoutOf(call[c].op, call[c].params)))
      [] child[c].state = "failed" -> OnExc(call[c].op, child[c].error)

\* C19: with several calls in flight on the shared instance, in every
\* interleaving each call has spawned its own single child from its own
\* arguments and ends with the outcome computed from its own child alone (its
\* exit, its timeout or its launch failure); a step of one call changes
\* nothing that belongs to another call; wsl_path is never changed after
\* construction.
C19_CallsIndependent ==
    /\ [](/\ wsl_path = "wsl.exe"
          /\ \A c \in Calls :
                /\ pc[c] = "running" =>
                      /\ child[c].state = "running"
                      /\ launches[c] = 1
                      /\ argv[c] = Args(call[c].op, call[c].params)
                /\ pc[c] \in {"returned", "raised"} =>
                      /\ launches[c] = 1
                      /\ argv[c] = Args(call[c].op, call[c].params)
                      /\ result[c] = OwnOutcome(c))
    /\ [][/\ wsl_path' = wsl_path
          /\ \A c, d \in Calls :
                (c # d /\ Slot(c)' # Slot(c)) => Slot(d)' = Slot(d)]_vars

\* two callers made the same call at the same time; one child exited with
\* failure while the other was killed at the timeout
C19_Witness ==
    /\ call[1] = call[2]
    /\ call[1].op = "execute_command_advanced"
    /\ child[1].state = "exited"
    /\ child[1].returncode = 255
    /\ child[2].state = "killed"
    /\ pc[1] = "returned"
    /\ pc[2] = "returned"
    /\ result[1].returncode = 255
    /\ result[2].returncode = -1

\* the timer of subprocess.run fires if the child does not exit first, and
\* the kill succeeds
SpecFair ==
    /\ Init
    /\ [][Next]_vars
    /\ \A c \in Calls :
          WF_vars(\E printed \in PartialOutputs :
                     TimeoutExpires(c, printed) /\ UNCHANGED <<path_vars, file_vars>>)

Ended == {"returned", "raised"}

\* C20: every call eventually ends (given the timer fires and the kill
\* succeeds); it ends exactly once, by child exit, timeout expiry or launch
\* failure; a call that returns has one outcome, which does not change
\* afterwards; a call in flight cannot end in any other way, and is never
\* taken back to idle by its caller.
C20_EveryCallEnds ==
    /\ \A c \in Calls : (pc[c] = "running") ~> (pc[c] \in Ended)
    /\ [][\A c \in Calls :
            /\ (pc[c] = "running" /\ pc'[c] # "running") =>
                  /\ pc'[c] \in Ended
                  /\ child'[c].state \in {"exited", "killed"}
            /\ (pc[c] = "idle" /\ pc'[c] # "idle") =>
                  \/ pc'[c] = "running" /\ child'[c].state = "running"
                  \/ pc'[c] \in Ended /\ child'[c].state = "failed"
            /\ pc[c] \in Ended =>
                  /\ pc'[c] \in {pc[c], "idle"}
                  /\ pc'[c] = pc[c] => (result'[c] = result[c] /\ child'[c] = child[c])
            /\ pc'[c] = "returned" => result'[c].kind \in {"outcome", "value"}
            /\ pc'[c] = "raised" => result'[c].kind = "raised"
         ]_vars

\* one call has ended by raising after its child was killed at the timeout,
\* another by returning after its child exited
C20_Witness ==
    /\ pc[1] = "raised"
    /\ child[1].state = "killed"
    /\ pc[2] = "returned"
    /\ child[2].state = "exited"
    /\ result[2].kind = "outcome"

(***************************************************************************)
(* The shell that reads a command: execute_command runs                    *)
(* [wsl_path, "sh", "-c", command], and sh splits the command into words   *)
(* and operators by the POSIX quoting rules.                               *)
(***************************************************************************)
MaxText == 3

\* the characters of a literal piece of the command f-strings; a piece that
\* is a character already stands for itself
Chars(piece) ==
    CASE piece = "cat '" -> <<"c", "a", "t", " ", "'">>
      [] piece = "'" -> <<"'">>
      [] piece = "echo '" -> <<"e", "c", "h", "o", " ", "'">>
      [] piece = "' > '" -> <<"'", " ", ">", " ", "'">>
      [] piece = "' >> '" -> <<"'", " ", ">", ">", " ", "'">>
      [] piece = "mkdir -p '" -> <<"m", "k", "d", "i", "r", " ", "-", "p", " ", "'">>
      [] piece = "mkdir '" -> <<"m", "k", "d", "i", "r", " ", "'">>
      [] piece = "ls -la '" -> <<"l", "s", " ", "-", "l", "a", " ", "'">>
      [] piece = "rm -rf '" -> <<"r", "m", " ", "-", "r", "f", " ", "'">>
      [] piece = "rm -f '" -> <<"r", "m", " ", "-", "f", " ", "'">>
      [] piece = "cp -r '" -> <<"c", "p", " ", "-", "r", " ", "'">>
      [] piece = "cp '" -> <<"c", "p", " ", "'">>
      [] piece = "' '" -> <<"'", " ", "'">>
      [] piece = "mv '" -> <<"m", "v", " ", "'">>
      [] piece = "stat '" -> <<"s", "t", "a", "t", " ", "'">>
      [] piece = "if [ -e '" -> <<"i", "f", " ", "[", " ", "-", "e", " ", "'">>
      [] piece = "' ]; then echo 'exists'; else echo 'not_exists'; fi" ->
            <<"'", " ", "]", ";", " ", "t", "h", "e", "n", " ", "e", "c", "h", "o", " ", "'",
              "e", "x", "i", "s", "t", "s", "'", ";", " ", "e", "l", "s", "e", " ", "e", "c",
              "h", "o", " ", "'", "n", "o", "t", "_", "e", "x", "i", "s", "t", "s", "'", ";",
              " ", "f", "i">>
      [] piece = "if [ -d '" -> <<"i", "f", " ", "[", " ", "-", "d", " ", "'">>
      [] piece = "' ]; then echo 'dir'; else echo 'not_dir'; fi" ->
            <<"'", " ", "]", ";", " ", "t", "h", "e", "n", " ", "e", "c", "h", "o", " ", "'",
              "d", "i", "r", "'", ";", " ", "e", "l", "s", "e", " ", "e", "c", "h", "o", " ",
              "'", "n", "o", "t", "_", "d", "i", "r", "'", ";", " ", "f", "i">>
      [] piece = "if [ -f '" -> <<"i", "f", " ", "[", " ", "-", "f", " ", "'">>
      [] piece = "' ]; then echo 'file'; else echo 'not_file'; fi" ->
            <<"'", " ", "]", ";", " ", "t", "h", "e", "n", " ", "e", "c", "h", "o", " ", "'",
              "f", "i", "l", "e", "'", ";", " ", "e", "l", "s", "e", " ", "e", "c", "h", "o",
              " ", "'", "n", "o", "t", "_", "f", "i", "l", "e", "'", ";", " ", "f", "i">>
      [] piece = "pwd" -> <<"p", "w", "d">>
      [] piece = "cd '" -> <<"c", "d", " ", "'">>
      [] piece = "' && pwd" -> <<"'", " ", "&", "&", " ", "p", "w", "d">>
      [] piece = "sed -n '" -> <<"s", "e", "d", " ", "-", "n", " ", "'">>
      [] piece = "p' '" -> <<"p", "'", " ", "'">>
      [] piece = ",$p' '" -> <<",", "$", "p", "'", " ", "'">>
      [] piece = "grep -n '" -> <<"g", "r", "e", "p", " ", "-", "n", " ", "'">>
      [] piece = "grep -nF '" -> <<"g", "r", "e", "p", " ", "-", "n", "F", " ", "'">>
      [] OTHER -> <<piece>>

\* the command as sh receives it: the characters of all its pieces
RECURSIVE Expand(_)
Expand(cmd) == IF cmd = <<>> THEN <<>> ELSE Chars(Head(cmd)) \o Expand(Tail(cmd))

\* tokens of the shell: a word after quote removal, an operator, and the
\* mark of a quote still open at the end of the command
Word(w) == [kind |-> "word", text |-> w]
Operator(o) == [kind |-> "operator", text |-> o]
Unterminated == [kind |-> "unterminated", text |-> <<>>]

OperatorChars == {";", "&", "|", "<", ">", "(", ")"}
DoubledOperators == {<<">", ">">>, <<"&", "&">>, <<"|", "|">>, <<";", ";">>, <<"<", "<">>}
Blank(ch) == ch \in {" ", "\t", "\n"}
\* a parameter expansion or command substitution starts here
EXPANSION == "<expansion>"

\* the shell before it has read anything
ShellStart ==
    [mode |-> "plain", word |-> <<>>, inword |-> FALSE, joins |-> FALSE, tokens |-> <<>>]

\* the tokens once the word in progress, if any, is delimited
Flushed(st) == IF st.inword THEN Append(st.tokens, Word(st.word)) ELSE st.tokens

\* the shell reads one character
ShellStep(st, ch) ==
    CASE st.mode = "single" ->
            IF ch = "'" THEN [st EXCEPT !.mode = "plain"]
            ELSE [st EXCEPT !.word = Append(@, ch)]
      [] st.mode = "double" ->
            IF ch = "\"" THEN [st EXCEPT !.mode = "plain"]
            ELSE IF ch = BACKSLASH THEN [st EXCEPT !.mode = "double_escape"]
            ELSE IF ch = "$" THEN [st EXCEPT !.word = Append(@, EXPANSION)]
            ELSE [st EXCEPT !.word = Append(@, ch)]
      [] st.mode = "double_escape" ->
            IF ch \in {"$", "\"", BACKSLASH}
            THEN [st EXCEPT !.mode = "double", !.word = Append(@, ch)]
            ELSE [st EXCEPT !.mode = "double", !.word = @ \o <<BACKSLASH, ch>>]
      [] st.mode = "escape" ->
            [st EXCEPT !.mode = "plain", !.word = Append(@, ch)]
      [] OTHER ->
            IF ch = "'" THEN [st EXCEPT !.mode = "single", !.inword = TRUE, !.joins = FALSE]
            ELSE IF ch = "\""
            THEN [st EXCEPT !.mode = "double", !.inword = TRUE, !.joins = FALSE]
            ELSE IF ch = BACKSLASH
            THEN [st EXCEPT !.mode = "escape", !.inword = TRUE, !.joins = FALSE]
            ELSE IF Blank(ch)
            THEN [st EXCEPT !.tokens = Flushed(st), !.word = <<>>, !.inword = FALSE,
                            !.joins = FALSE]
            ELSE IF ch \in OperatorChars
            THEN IF /\ st.joins
                    /\ st.tokens[Len(st.tokens)].text \o <<ch>> \in DoubledOperators
                 THEN [st EXCEPT !.tokens[Len(st.tokens)].text = @ \o <<ch>>,
                                 !.joins = FALSE]
                 ELSE [st EXCEPT !.tokens = Append(Flushed(st), Operator(<<ch>>)),
                                 !.word = <<>>, !.inword = FALSE, !.joins = TRUE]
            ELSE IF ch = "$"
            THEN [st EXCEPT !.word = Append(@, EXPANSION), !.inword = TRUE, !.joins = FALSE]
            ELSE [st EXCEPT !.word = Append(@, ch), !.inword = TRUE, !.joins = FALSE]

ShellModes == {"plain", "single", "double", "double_escape", "escape"}

\* the shell reads the characters text[lo..hi] in order: the first half to
\* its end, then the second half from the state the first half left
RECURSIVE ShellRead(_, _, _, _)
ShellRead(st, text, lo, hi) ==
    IF lo > hi THEN st
    ELSE IF lo = hi THEN ShellStep(st, text[lo])
    ELSE LET mid == (lo + hi) \div 2
             left == ShellRead(st, text, lo, mid)
         IN  IF left.mode \in ShellModes
             THEN ShellRead(left, text, mid + 1, hi)
             ELSE left

\* the tokens sh makes of a command
ShellTokens(text) ==
    LET end == ShellRead(ShellStart, text, 1, Len(text))
    IN  IF end.mode = "plain" THEN Flushed(end)
        ELSE Append(Flushed(end), Unterminated)

(***************************************************************************)
(* The tool functions called with arbitrary contents and paths             *)
(***************************************************************************)
\* the characters contents and paths are made of
TextChars == {"a", "'", "\"", " ", ";", "$", BACKSLASH}

\* every text over TextChars of at most MaxText characters
Texts == UNION {[1..n -> TextChars] : n \in 0..MaxText}

\* the characters paths are made of, and every path of at most MaxText of them
PathTextChars == {"a", "'", ";", " "}
PathTexts == UNION {[1..n -> PathTextChars] : n \in 0..MaxText}

\* the tool functions with a content parameter
ContentOps == {"write_file", "append_to_file"}

\* the path parameters of each tool function
PathParams(f) ==
    CASE f \in {"read_file", "write_file", "append_to_file", "delete_file",
                "get_file_info", "file_exists", "read_file_lines",
                "search_in_file"} -> {"file_path"}
      [] f \in {"create_directory", "list_directory", "change_directory"} -> {"dir_path"}
      [] f \in {"copy_file", "move_file"} -> {"source", "destination"}
      [] f \in {"is_directory", "is_file"} -> {"path"}
      [] OTHER -> {}

\* each tool function with every content, and with every path in each of
\* its path parameters
QuoteArgs(f) ==
    FileArgs(f)
    \cup {[a EXCEPT ![k] = t] : a \in FileArgs(f), k \in PathParams(f), t \in PathTexts}
    \cup (IF f \in ContentOps
          THEN {[file_path |-> F_path, content |-> t] : t \in Texts}
          ELSE {})

\* the command has run and printed nothing
Silent == [returncode |-> 0, stdout |-> T_empty, stderr |-> T_empty]

NextQuote ==
    \/ /\ file_pc = "idle"
       /\ \E f \in FileOps : \E a \in QuoteArgs(f) :
             FileInvoke(f, a) /\ UNCHANGED path_vars
    \/ FileChildExits(Silent) /\ UNCHANGED path_vars
    \/ FileFinish /\ UNCHANGED path_vars

SpecQuote == Init /\ [][NextQuote]_vars

\* C21: in write_file and append_to_file, for every content (single quotes,
\* double quotes, blanks, semicolons, dollars and backslashes included), the
\* content with each single quote replaced by '"'"' and wrapped in single
\* quotes is read by the shell as exactly one word equal to the content: the
\* command is the word echo, the content, the redirection and the path.
C21_ContentIsOneWord ==
    (/\ file_pc # "idle"
     /\ file_call.op \in ContentOps
     /\ file_call.args.file_path = F_path) =>
        ShellTokens(Expand(call[1].params.command)) =
            <<Word(<<"e", "c", "h", "o">>),
              Word(file_call.args.content),
              Operator(IF file_call.op = "write_file" THEN <<">">> ELSE <<">", ">">>),
              Word(file_call.args.file_path)>>

\* a content that closes a quote and adds a command was written as one word
C21_Witness ==
    /\ file_pc = "done"
    /\ file_call.op = "write_file"
    /\ file_call.args.content = <<"'", ";", "a">>
    /\ ShellTokens(Expand(call[1].params.command))[2] = Word(<<"'", ";", "a">>)

\* the arguments with a one-character stand-in for each path
Benign(f, a) == [k \in DOMAIN a |-> IF k \in PathParams(f) THEN <<k>> ELSE a[k]]

\* the tokens of a command with each stand-in replaced by the path it stands
\* for, as one word
WithPaths(tokens, f, a) ==
    [i \in 1..Len(tokens) |->
        IF /\ tokens[i].kind = "word"
           /\ Len(tokens[i].text) = 1
           /\ tokens[i].text[1] \in PathParams(f)
        THEN Word(a[tokens[i].text[1]])
        ELSE tokens[i]]

\* C22: for every path a caller supplies (paths with a single quote
\* included), the command a file operation builds is read by the shell as the
\* words and operators of the operation's template with the path as exactly
\* one word: it has the tokens of the command built for any other path,
\* except for that one word.
C22_PathIsOneWord ==
    file_pc # "idle" =>
        ShellTokens(Expand(call[1].params.command)) =
            WithPaths(ShellTokens(Expand(FileCommand(file_call.op,
                                                     Benign(file_call.op, file_call.args)))),
                      file_call.op, file_call.args)

====
